---- MODULE Spec2Model ----
(***************************************************************************)
(* Model of the blog scaffold: the actix-web backend (main.rs, page_gen.rs)*)
(* and the wasm frontend (lib.rs).  Strings whose content matters are      *)
(* sequences of one-character strings.                                     *)
(***************************************************************************)
EXTENDS Integers, Sequences, FiniteSets, TLC

\* ---------------------------------------------------------------- bounds
MaxReq == 3
MaxCalls == 3

Requests == 1..MaxReq

\* ------------------------------------------------------- string literals
Ben == <<"b","e","n">>
AlertEe == <<"a","l","e","r","t","-","e","e">>
HelloFmt == <<"H","e","l","l","o",","," ","{","}","!">>
IndexHtml == "index.html"

\* ------------------------------------------------------------ tera model
\* A template source is a sequence of tokens: literal text, a {{ var }}
\* expression, or an unterminated tag (a syntax error).
Text(s) == [kind |-> "text", val |-> s, var |-> ""]
Var(v) == [kind |-> "var", val |-> <<>>, var |-> v]
Unclosed == [kind |-> "unclosed", val |-> <<>>, var |-> ""]

File(n, h, s) == [name |-> n, html |-> h, src |-> s]

\* The template directories the process can be started on.
DirGreeting == {File(IndexHtml, TRUE, <<Text(<<"H","i"," ">>), Var("name"), Text(<<"<","p",">">>)>>)}
DirStatic == {File(IndexHtml, TRUE, <<Text(<<"h","o","m","e">>)>>),
              File("notes.txt", FALSE, <<Unclosed>>)}
DirMissingVar == {File(IndexHtml, TRUE, <<Text(<<"H","i"," ">>), Var("title")>>)}
DirNoIndex == {File("about.html", TRUE, <<Text(<<"a","b","o","u","t">>)>>)}
DirBadIndex == {File(IndexHtml, TRUE, <<Text(<<"H","i"," ">>), Unclosed>>)}
DirBadOther == {File(IndexHtml, TRUE, <<Var("name")>>),
                File("post.html", TRUE, <<Unclosed, Text(<<"x">>)>>)}
TemplateDirs == {DirGreeting, DirStatic, DirMissingVar, DirNoIndex, DirBadIndex, DirBadOther}

\* The glob templates/**/*.html selects the .html files only.
Glob(dir) == {f \in dir : f.html}

ParseOk(src) == \A i \in 1..Len(src) : src[i].kind # "unclosed"

\* tera::Tera::new: every matched file must parse.
TeraNew(dir) ==
  IF \A f \in Glob(dir) : ParseOk(f.src)
  THEN [ok |-> TRUE, tera |-> [n \in {f.name : f \in Glob(dir)} |->
                                 (CHOOSE f \in Glob(dir) : f.name = n).src]]
  ELSE [ok |-> FALSE, tera |-> <<>>]

EscapeChar(c) ==
  CASE c = "<" -> <<"&","l","t",";">>
    [] c = ">" -> <<"&","g","t",";">>
    [] c = "&" -> <<"&","a","m","p",";">>
    [] OTHER -> <<c>>

RECURSIVE EscapeHtml(_)
EscapeHtml(s) == IF s = <<>> THEN <<>> ELSE EscapeChar(Head(s)) \o EscapeHtml(Tail(s))

RenderOk(s) == [ok |-> TRUE, val |-> s, err |-> ""]
RenderErr(e) == [ok |-> FALSE, val |-> <<>>, err |-> e]

RECURSIVE RenderTokens(_, _)
RenderTokens(src, ctx) ==
  IF src = <<>> THEN RenderOk(<<>>)
  ELSE LET t == Head(src)
           rest == RenderTokens(Tail(src), ctx)
       IN IF t.kind = "var" /\ t.var \notin DOMAIN ctx THEN RenderErr("MissingVariable")
          ELSE IF ~rest.ok THEN rest
          ELSE IF t.kind = "var" THEN RenderOk(EscapeHtml(ctx[t.var]) \o rest.val)
          ELSE RenderOk(t.val \o rest.val)

\* Tera::render(name, ctx)
Render(tera, name, ctx) ==
  IF name \notin DOMAIN tera THEN RenderErr("TemplateNotFound")
  ELSE RenderTokens(tera[name], ctx)

\* -------------------------------------------------------- http responses
Response(st, ct, b) == [status |-> st, ctype |-> ct, body |-> b]
NoResponse == Response(0, "", <<>>)
NotFound == Response(404, "", <<>>)

\* hello(): the context built for every request
HelloCtx == [k \in {"name"} |-> Ben]

\* hello(): match template { Ok(t) => ..., Err(e) => ... }
HelloResponseNoBody(template) ==
  IF template.ok THEN Response(200, "text/html", <<>>)
  ELSE Response(501, "", <<>>)
HelloResponseByCause(template) ==
  IF template.ok THEN Response(200, "text/html", template.val)
  ELSE IF template.err = "TemplateNotFound" THEN NotFound
  ELSE Response(501, "", <<>>)
HelloResponse(template) ==
  IF template.ok THEN Response(200, "text/html", template.val)
  ELSE Response(501, "", <<>>)

\* hello(): the template rendered and the context passed
HelloRenderAbout(tera) == Render(tera, "about.html", HelloCtx)
HelloRender(tera) == Render(tera, IndexHtml, HelloCtx)

\* main(): scope("/") / resource("") / route(get().to(hello)); everything
\* else falls to the routing layer's default not-found service.
RouteAnyMethod(method, path) == IF path = "/" THEN "hello" ELSE "default"
Route(method, path) == IF method = "GET" /\ path = "/" THEN "hello" ELSE "default"

Methods == {"GET", "POST"}
Paths == {"/", "/missing", "/admin"}

\* lazy_static Once: who may start the initialiser, who may read the value
OnceMayRunRacy(state) == state # "ready"
OnceMayRun(state) == state = "uninit"
OnceCompleteUnsync(state) == TRUE
OnceComplete(state) == state = "ready"

\* page_gen.rs: ::std::process::exit(1)
LoadFailExitSuccess == <<0>>
LoadFailExit == <<1>>
\* main returning Err from bind(..)?
BindFailExit == <<1>>

ParsingErrors == "Parsing error(s)"

\* ------------------------------------------------------------- frontend
\* format!: each {} placeholder is replaced by the next argument.
RECURSIVE Format(_, _)
Format(fmt, args) ==
  IF fmt = <<>> THEN <<>>
  ELSE IF Len(fmt) >= 2 /\ fmt[1] = "{" /\ fmt[2] = "}"
       THEN Head(args) \o Format(SubSeq(fmt, 3, Len(fmt)), Tail(args))
       ELSE <<Head(fmt)>> \o Format(Tail(fmt), args)

\* greet(): format!("Hello, {}!", subj)
GreetMessageNoBang(subj) == Format(SubSeq(HelloFmt, 1, Len(HelloFmt) - 1), <<subj>>)
GreetMessage(subj) == Format(HelloFmt, <<subj>>)

Subjects == {AlertEe, <<>>, <<"{","}">>, <<"!">>}

\* log::set_logger: fails when a logger is already installed
SetLoggerOkAlways(logger) == TRUE
SetLoggerOk(logger) == logger = "none"

\* app_main(): the order of its statements
AppMainNextGreetFirst(pc) ==
  CASE pc = "hook" -> "greet"
    [] pc = "greet" -> "init"
    [] pc = "init" -> "debug"
    [] pc = "debug" -> "idle"
AppMainNext(pc) ==
  CASE pc = "hook" -> "init"
    [] pc = "init" -> "debug"
    [] pc = "debug" -> "greet"
    [] pc = "greet" -> "idle"

InitedLine == "console log initialised"
InitPanic == "problems initing logger"

VARIABLES
  mainPc,       \* position of main(): "start", "bind", "running", "exited"
  exit,         \* <<>> while the process lives, <<status>> once it ended
  socketBound,  \* the listening socket has been opened
  tmplDir,      \* content of templates/ on disk
  TEMPLATES,    \* the lazy static: [state, value]
  initRuns,     \* number of times the initialiser block was entered
  stdout,       \* lines printed by println!
  handlerCalls, \* number of invocations of hello()
  req,          \* per request: pc, method, path, template (local), resp
  fpc,          \* position inside app_main, "idle" outside
  hookSet,      \* panic hook installed
  logger,       \* the global logger of the log crate
  console,      \* browser console lines
  alerts,       \* messages passed to the host's alert(), in order
  greetCalls,   \* subjects passed to greet(), in order
  runs,         \* one record per app_main invocation
  calls         \* host calls made so far

bvars == <<mainPc, exit, socketBound, tmplDir, TEMPLATES, initRuns, stdout, handlerCalls, req>>
fvars == <<fpc, hookSet, logger, console, alerts, greetCalls, runs, calls>>
vars == <<mainPc, exit, socketBound, tmplDir, TEMPLATES, initRuns, stdout, handlerCalls, req,
          fpc, hookSet, logger, console, alerts, greetCalls, runs, calls>>

NoTemplate == RenderErr("unset")
NewReq == [pc |-> "new", method |-> "", path |-> "", template |-> NoTemplate, resp |-> NoResponse]

BackendInit ==
  /\ mainPc = "start"
  /\ exit = <<>>
  /\ socketBound = FALSE
  /\ TEMPLATES = [state |-> "uninit", value |-> <<>>]
  /\ initRuns = 0
  /\ stdout = <<>>
  /\ handlerCalls = 0
  /\ req = [r \in Requests |-> NewReq]

FrontendInit ==
  /\ fpc = "idle"
  /\ hookSet = FALSE
  /\ logger = "none"
  /\ console = <<>>
  /\ alerts = <<>>
  /\ greetCalls = <<>>
  /\ runs = <<>>
  /\ calls = 0

\* ------------------------------------------------------- backend actions
\* main(): set_var("RUST_LOG", ..); env_logger::init()
EnvLoggerInit ==
  /\ UNCHANGED fvars
  /\ mainPc = "start"
  /\ mainPc' = "bind"
  /\ UNCHANGED <<exit, socketBound, tmplDir, TEMPLATES, initRuns, stdout, handlerCalls, req>>

\* main(): HttpServer::new(..).bind(..)? succeeds, .run()
BindOk ==
  /\ UNCHANGED fvars
  /\ mainPc = "bind"
  /\ socketBound' = TRUE
  /\ mainPc' = "running"
  /\ UNCHANGED <<exit, tmplDir, TEMPLATES, initRuns, stdout, handlerCalls, req>>

\* main(): bind(..)? fails (address in use), main returns the error
BindErr ==
  /\ UNCHANGED fvars
  /\ mainPc = "bind"
  /\ mainPc' = "exited"
  /\ exit' = BindFailExit
  /\ UNCHANGED <<socketBound, tmplDir, TEMPLATES, initRuns, stdout, handlerCalls, req>>

\* the server is stopped; run().await completes and main returns Ok(())
Shutdown ==
  /\ UNCHANGED fvars
  /\ mainPc = "running"
  /\ mainPc' = "exited"
  /\ exit' = <<0>>
  /\ UNCHANGED <<socketBound, tmplDir, TEMPLATES, initRuns, stdout, handlerCalls, req>>

\* a request arrives and is routed
Arrive(r, m, p) ==
  /\ UNCHANGED fvars
  /\ mainPc = "running"
  /\ req[r].pc = "new"
  /\ IF Route(m, p) = "hello"
     THEN /\ req' = [req EXCEPT ![r] = [@ EXCEPT !.pc = "hello", !.method = m, !.path = p]]
          /\ handlerCalls' = handlerCalls + 1
     ELSE /\ req' = [req EXCEPT ![r] = [@ EXCEPT !.pc = "done", !.method = m, !.path = p,
                                                  !.resp = NotFound]]
          /\ UNCHANGED handlerCalls
  /\ UNCHANGED <<mainPc, exit, socketBound, tmplDir, TEMPLATES, initRuns, stdout>>

\* hello(): page_gen::TEMPLATES is dereferenced and its initialiser starts
LazyStart(r) ==
  /\ UNCHANGED fvars
  /\ mainPc = "running"
  /\ req[r].pc = "hello"
  /\ OnceMayRun(TEMPLATES.state)
  /\ TEMPLATES' = [TEMPLATES EXCEPT !.state = "running"]
  /\ initRuns' = initRuns + 1
  /\ req' = [req EXCEPT ![r].pc = "init"]
  /\ UNCHANGED <<mainPc, exit, socketBound, tmplDir, stdout, handlerCalls>>

\* TEMPLATES initialiser: Tera::new(..) is Ok(t)
LazyOk(r) ==
  /\ UNCHANGED fvars
  /\ mainPc = "running"
  /\ req[r].pc = "init"
  /\ TeraNew(tmplDir).ok
  /\ TEMPLATES' = [state |-> "ready", value |-> TeraNew(tmplDir).tera]
  /\ req' = [req EXCEPT ![r].pc = "hello"]
  /\ UNCHANGED <<mainPc, exit, socketBound, tmplDir, initRuns, stdout, handlerCalls>>

\* TEMPLATES initialiser: Tera::new(..) is Err(e): println!, process::exit(1)
LazyErr(r) ==
  /\ UNCHANGED fvars
  /\ mainPc = "running"
  /\ req[r].pc = "init"
  /\ ~TeraNew(tmplDir).ok
  /\ stdout' = Append(stdout, ParsingErrors)
  /\ exit' = LoadFailExit
  /\ mainPc' = "exited"
  /\ UNCHANGED <<socketBound, tmplDir, TEMPLATES, initRuns, handlerCalls, req>>

\* hello(): render and map the result to the response
HelloRespond(r) ==
  /\ UNCHANGED fvars
  /\ mainPc = "running"
  /\ req[r].pc = "hello"
  /\ OnceComplete(TEMPLATES.state)
  /\ LET template == HelloRender(TEMPLATES.value)
     IN req' = [req EXCEPT ![r] = [@ EXCEPT !.pc = "done", !.template = template,
                                            !.resp = HelloResponse(template)]]
  /\ UNCHANGED <<mainPc, exit, socketBound, tmplDir, TEMPLATES, initRuns, stdout, handlerCalls>>

Next ==
  \/ EnvLoggerInit
  \/ BindOk
  \/ BindErr
  \/ Shutdown
  \/ \E r \in Requests, m \in Methods, p \in Paths : Arrive(r, m, p)
  \/ \E r \in Requests : LazyStart(r)
  \/ \E r \in Requests : LazyOk(r)
  \/ \E r \in Requests : LazyErr(r)
  \/ \E r \in Requests : HelloRespond(r)

Init == tmplDir \in TemplateDirs /\ BackendInit /\ FrontendInit
Spec == Init /\ [][Next]_vars

\* ------------------------------------------------------ frontend actions
NewRun == [logged |-> 0, shown |-> <<>>, outcome |-> "running"]
Last(s) == s[Len(s)]
SetLast(s, x) == [s EXCEPT ![Len(s)] = x]

\* the host page calls app_main()
CallAppMain ==
  /\ UNCHANGED bvars
  /\ fpc = "idle"
  /\ calls < MaxCalls
  /\ calls' = calls + 1
  /\ fpc' = "hook"
  /\ runs' = Append(runs, NewRun)
  /\ UNCHANGED <<hookSet, logger, console, alerts, greetCalls>>

\* app_main(): utils::set_panic_hook()
SetPanicHook ==
  /\ UNCHANGED bvars
  /\ fpc = "hook"
  /\ hookSet' = TRUE
  /\ fpc' = AppMainNext(fpc)
  /\ UNCHANGED <<logger, console, alerts, greetCalls, runs, calls>>

\* app_main(): console_log::init_with_level(Debug) is Ok
InitLoggerOk ==
  /\ UNCHANGED bvars
  /\ fpc = "init"
  /\ SetLoggerOk(logger)
  /\ logger' = "console"
  /\ fpc' = AppMainNext(fpc)
  /\ UNCHANGED <<hookSet, console, alerts, greetCalls, runs, calls>>

\* app_main(): init_with_level is Err, .expect(..) panics
InitLoggerPanic ==
  /\ UNCHANGED bvars
  /\ fpc = "init"
  /\ ~SetLoggerOk(logger)
  /\ console' = IF hookSet THEN Append(console, [level |-> "error", msg |-> InitPanic]) ELSE console
  /\ runs' = SetLast(runs, [Last(runs) EXCEPT !.outcome = "panicked"])
  /\ fpc' = "idle"
  /\ UNCHANGED <<hookSet, logger, alerts, greetCalls, calls>>

\* app_main(): log::debug!("console log initialised")
LogDebug ==
  /\ UNCHANGED bvars
  /\ fpc = "debug"
  /\ IF logger = "console"
     THEN /\ console' = Append(console, [level |-> "debug", msg |-> InitedLine])
          /\ runs' = SetLast(runs, [Last(runs) EXCEPT !.logged = @ + 1])
     ELSE UNCHANGED <<console, runs>>
  /\ fpc' = AppMainNext(fpc)
  /\ UNCHANGED <<hookSet, logger, alerts, greetCalls, calls>>

\* app_main(): greet("alert-ee")
AppGreet ==
  /\ UNCHANGED bvars
  /\ fpc = "greet"
  /\ greetCalls' = Append(greetCalls, AlertEe)
  /\ alerts' = Append(alerts, GreetMessage(AlertEe))
  /\ LET nxt == AppMainNext(fpc)
         shown == [Last(runs) EXCEPT !.shown = Append(@, GreetMessage(AlertEe))]
     IN /\ fpc' = nxt
        /\ runs' = SetLast(runs, IF nxt = "idle" THEN [shown EXCEPT !.outcome = "returned"] ELSE shown)
  /\ UNCHANGED <<hookSet, logger, console, calls>>

\* the host page calls greet(subj) directly
HostGreet(subj) ==
  /\ UNCHANGED bvars
  /\ fpc = "idle"
  /\ calls < MaxCalls
  /\ calls' = calls + 1
  /\ greetCalls' = Append(greetCalls, subj)
  /\ alerts' = Append(alerts, GreetMessage(subj))
  /\ UNCHANGED <<fpc, hookSet, logger, console, runs>>

GreeterNext ==
  \/ CallAppMain
  \/ SetPanicHook
  \/ InitLoggerOk
  \/ InitLoggerPanic
  \/ LogDebug
  \/ AppGreet
  \/ \E subj \in Subjects : HostGreet(subj)

GreeterInit == tmplDir = DirGreeting /\ BackendInit /\ FrontendInit
SpecGreeter == GreeterInit /\ [][GreeterNext]_vars

\* ----------------------------------------------------------- properties
IsHello(r) == req[r].method = "GET" /\ req[r].path = "/"
Answered(r) == req[r].pc = "done"
LoadFailed == stdout # <<>>
Exited == mainPc = "exited"
HelloAlertEe == <<"H","e","l","l","o",","," ","a","l","e","r","t","-","e","e","!">>
NotImplementedEmpty == [status |-> 501, ctype |-> "", body |-> <<>>]

\* C1 (as stated): in a run whose template load fails the listening socket
\* is never bound.
C1_NeverBoundWhenLoadFails == LoadFailed => ~socketBound

\* C1 (amended): a failing template load ends the process with a non-zero
\* exit status, but the load is attempted only inside the handler of a
\* GET / request, so the listening socket has been bound by then.
C1_LoadFailureExitsAfterBind ==
  LoadFailed => /\ Exited
                /\ Len(exit) = 1 /\ exit[1] # 0
                /\ socketBound
                /\ handlerCalls >= 1

C1_Witness == LoadFailed /\ exit = <<1>> /\ socketBound /\ tmplDir = DirBadOther

\* C2 (as stated): the load has completed before any request to any route
\* is answered, and after a failed load no request has been answered.
C2_LoadedBeforeAnyResponse ==
  /\ (\E r \in Requests : Answered(r)) => TEMPLATES.state = "ready"
  /\ LoadFailed => \A r \in Requests : ~Answered(r)

\* C2 (amended): the template set is loaded once, at the first GET /; the
\* load has completed before any GET / request is answered, and if it
\* fails the process ends without having answered any GET / request.
C2_LoadedBeforeHelloResponse ==
  /\ \A r \in Requests : Answered(r) /\ IsHello(r) =>
        TEMPLATES.state = "ready" /\ initRuns = 1
  /\ LoadFailed => Exited /\ \A r \in Requests : IsHello(r) => ~Answered(r)

C2_Witness ==
  \E r1, r2 \in Requests :
    /\ Answered(r1) /\ IsHello(r1) /\ req[r1].resp.status = 200
    /\ req[r2].pc = "hello"

\* C3: every render error is answered by GET / with status 501 and an empty
\* body, whatever the cause, and nothing is printed.
C3_RenderErrorIs501 ==
  \A r \in Requests : Answered(r) /\ IsHello(r) /\ ~req[r].template.ok =>
     /\ req[r].template.err \in {"TemplateNotFound", "MissingVariable"}
     /\ req[r].resp = NotImplementedEmpty
     /\ stdout = <<>>

C3_Witness ==
  \E r \in Requests : /\ Answered(r) /\ IsHello(r)
                      /\ req[r].template.err = "TemplateNotFound"
                      /\ req[r].resp.status = 501

\* C4: when rendering index.html with {name -> ben} succeeds, GET / answers
\* 200, text/html, with the renderer's output as the body.
C4_RenderOkIs200 ==
  \A r \in Requests : Answered(r) /\ IsHello(r) /\ req[r].template.ok =>
     /\ req[r].template = Render(TEMPLATES.value, "index.html", [k \in {"name"} |-> <<"b","e","n">>])
     /\ req[r].resp.status = 200
     /\ req[r].resp.ctype = "text/html"
     /\ req[r].resp.body = req[r].template.val

C4_Witness ==
  \E r \in Requests : /\ Answered(r)
                      /\ req[r].resp.status = 200
                      /\ req[r].resp.body = <<"H","i"," ","b","e","n","<","p",">">>

\* C5: with a valid template set every answered GET / request has a 200
\* response and all these responses are identical, in every interleaving.
ValidSet == TeraNew(tmplDir).ok /\ Render(TeraNew(tmplDir).tera, IndexHtml, HelloCtx).ok

C5_ConcurrentIdentical200 ==
  ValidSet => \A r1, r2 \in Requests :
     Answered(r1) /\ IsHello(r1) /\ Answered(r2) /\ IsHello(r2) =>
        /\ req[r1].resp.status = 200
        /\ req[r1].resp = req[r2].resp

C5_Witness ==
  /\ \A r \in Requests : Answered(r) /\ IsHello(r) /\ req[r].resp.status = 200
  /\ initRuns = 1

C7_GreetDisplaysHello ==
  /\ Len(alerts) = Len(greetCalls)
  /\ \A i \in 1..Len(greetCalls) :
        /\ alerts[i] = <<"H","e","l","l","o",","," ">> \o greetCalls[i] \o <<"!">>
        /\ greetCalls[i] = <<"a","l","e","r","t","-","e","e">> => alerts[i] = HelloAlertEe

C7_Witness ==
  \E i, j \in 1..Len(greetCalls) :
    /\ greetCalls[i] = AlertEe /\ alerts[i] = HelloAlertEe
    /\ greetCalls[j] = <<"{","}">> /\ Len(alerts[j]) = 10

\* C8 (as stated): every invocation of app_main, a second or later one
\* included, emits the debug line and displays exactly one dialog.
C8_EveryRunGreets ==
  \A i \in 1..Len(runs) : runs[i].outcome # "running" =>
     /\ runs[i].outcome = "returned"
     /\ runs[i].logged = 1
     /\ runs[i].shown = <<HelloAlertEe>>

\* C8 (amended): the first invocation of app_main in a page emits the debug
\* line and displays exactly one dialog "Hello, alert-ee!"; every later
\* invocation panics at the logger initialisation, with no log line and no
\* dialog.
C8_FirstRunGreetsLaterPanic ==
  \A i \in 1..Len(runs) : runs[i].outcome # "running" =>
     IF i = 1
     THEN runs[i] = [logged |-> 1, shown |-> <<HelloAlertEe>>, outcome |-> "returned"]
     ELSE runs[i] = [logged |-> 0, shown |-> <<>>, outcome |-> "panicked"]

C8_Witness ==
  /\ Len(runs) >= 2
  /\ runs[1].outcome = "returned"
  /\ runs[2].outcome = "panicked"
  /\ alerts = <<HelloAlertEe>>

\* C9: inside an invocation of app_main the panic hook is installed first,
\* then the log sink is initialised, then one debug line is emitted, then
\* greet is called; no dialog of app_main precedes a successful
\* initialisation of the log sink.
C9_AppMainOrder ==
  /\ fpc \in {"init", "debug", "greet"} => hookSet
  /\ fpc \in {"debug", "greet"} => logger = "console"
  /\ fpc = "greet" => Last(runs).logged = 1 /\ Last(runs).shown = <<>>
  /\ fpc \in {"hook", "init", "debug"} => Last(runs).shown = <<>>
  /\ fpc \in {"hook", "init"} => Last(runs).logged = 0
  /\ \A i \in 1..Len(runs) : runs[i].shown # <<>> => runs[i].logged = 1 /\ logger = "console"

C9_Witness ==
  /\ fpc = "idle"
  /\ Len(runs) = 1
  /\ runs[1].shown = <<HelloAlertEe>>
  /\ console = <<[level |-> "debug", msg |-> InitedLine]>>

\* C10 (as stated): the initialiser runs at most once and the template set
\* is established before any request is served.
C10_EstablishedBeforeServing ==
  /\ initRuns <= 1
  /\ \A r \in Requests : req[r].resp # NoResponse => TEMPLATES.state = "ready"

\* C10 (amended): the initialiser of the template set runs at most once,
\* the set is established by the first GET / before any GET / request is
\* answered, once established it never changes, and apart from that
\* one-time initialisation a step of the GET / handler changes nothing but
\* the request it handles.
HandlerStep(r) == req[r].pc \in {"hello", "init"} /\ req'[r] # req[r]

C10_OnceThenReadOnly ==
  /\ [](initRuns <= 1)
  /\ [](\A r \in Requests : IsHello(r) /\ req[r].resp # NoResponse => TEMPLATES.state = "ready")
  /\ [][TEMPLATES.state = "ready" => TEMPLATES' = TEMPLATES]_vars
  /\ [][\A r \in Requests : HandlerStep(r) =>
          /\ \A q \in Requests \ {r} : req'[q] = req[q]
          /\ UNCHANGED <<socketBound, tmplDir, handlerCalls>>
          /\ (TEMPLATES' # TEMPLATES \/ initRuns' # initRuns) =>
                (initRuns = 0 \/ TEMPLATES.state = "running")]_vars

C10_Witness ==
  /\ TEMPLATES.state = "ready"
  /\ initRuns = 1
  /\ Cardinality({r \in Requests : Answered(r) /\ IsHello(r)}) >= 2
  /\ \E r \in Requests : Answered(r) /\ req[r].resp.status = 404

====
